---- MODULE Spec2Model ----
(***************************************************************************)
(* Model of src/client/ciphering_toolchain.py: the recording toolchain     *)
(* (RecordingToolchain, RtspVideoRecorder, NewVideoHandler), the worker    *)
(* tasks it submits to its ThreadPoolExecutor, and the encryption          *)
(* configuration builder _generate_encryption_conf.                        *)
(*                                                                         *)
(* Threads of the model: the caller of the toolchain (mainPc), the         *)
(* watchdog observer thread that runs on_created (obsState, hPc), the      *)
(* external recorder process (recAlive) and the pool's worker tasks        *)
(* (task).  Staging files are numbered: 1..preCount are the files present  *)
(* in the recordings folder at construction, numbered by ascending         *)
(* modification time; preCount+1..MaxFiles are the segments the recorder   *)
(* creates, in that order.                                                 *)
(***************************************************************************)
EXTENDS Integers, Sequences, FiniteSets, TLC

\* ---- bounds of the model -------------------------------------------------
MaxFiles == 3
MaxWorkers == 2
MaxDevices == 3
MaxKeys == 2

Files == 1..MaxFiles
\* value of dispatchedBy for a path submitted by the drain of
\* stop_new_files_processing_and_wait (an on_created call is named by its event)
ShutdownDrain == MaxFiles + 1

VARIABLES
    \* NewVideoHandler
    pending_files,   \* self.pending_files: sequence of paths
    events,          \* the observer's event queue: created paths not yet delivered
    obsState,        \* observer thread: "new", "running", "dead"
    obsStopped,      \* observer.stop() has been called
    hPc,             \* position of the observer thread inside on_created
    hEvent,          \* event.src_path of the on_created call being run
    dispatchedBy,    \* history: which call popped and submitted each path
    popLog,          \* history: paths in the order process_pending_files popped them
    \* ThreadPoolExecutor and its tasks
    task,            \* per path: state of its _offloaded_start_processing task
    taskData,        \* per path: the local variable data of its task
    poolShutdown,    \* THREAD_POOL_EXECUTOR.shutdown() has been called
    submitCount,     \* history: number of submit() calls accepted per path
    \* file system
    fileExists,      \* staging file of the path is present
    preCount,        \* number of files present in the folder at construction
    readCount,       \* history: number of complete reads of the staging file
    deleteCount,     \* history: number of os.remove of the staging file
    container,       \* payload of the .crypt file named after the path (0: none)
    containerCount,  \* history: number of containers dumped for the path
    \* RtspVideoRecorder / VideoStreamWriterFfmpeg
    recAlive,        \* the external recording process is running
    recStarted,      \* history: start_writing has launched the process
    created,         \* number of segments the recorder has created
    missed,          \* history: a segment was created while no observer was armed
    \* RecordingToolchain caller
    mainPc,          \* position of the calling thread
    launchCalled,    \* launch_recording_toolchain has been called
    stopResult,      \* how stop_new_files_processing_and_wait ended
    statusRet,       \* value returned by the last get_status()
    statusAlive,     \* is_alive() of the recorder during the last get_status()
    \* _generate_encryption_conf
    keyStore,        \* imported key storages: device -> list of key records
    confStatus,      \* "uncalled", "returned", "IndexError"
    confThreshold,   \* argument threshold
    confDevices,     \* argument key_devices_used
    container_conf   \* the returned configuration

watcherVars == <<pending_files, events, obsState, obsStopped, hPc, hEvent, dispatchedBy, popLog>>
poolVars == <<task, taskData, poolShutdown, submitCount>>
fsVars == <<fileExists, preCount, readCount, deleteCount, container, containerCount>>
recVars == <<recAlive, recStarted, created, missed>>
mainVars == <<mainPc, launchCalled, stopResult, statusRet, statusAlive>>
confVars == <<keyStore, confStatus, confThreshold, confDevices, container_conf>>
vars == <<watcherVars, poolVars, fsVars, recVars, mainVars, confVars>>

\* ---- helpers --------------------------------------------------------------
Range(s) == {s[i] : i \in DOMAIN s}

\* all orders in which os.listdir may return the files of S
Listings(S) == {s \in [1..Cardinality(S) -> S] : \A i, j \in DOMAIN s : i # j => s[i] # s[j]}

\* list.sort(key=...): stable insertion into an ascending list
RECURSIVE InsertByKey(_, _, _)
InsertByKey(sorted, x, key) ==
    IF sorted = <<>> THEN <<x>>
    ELSE IF key[x] < key[Head(sorted)] THEN <<x>> \o sorted
    ELSE <<Head(sorted)>> \o InsertByKey(Tail(sorted), x, key)

\* the listing kept as os.listdir returned it, the sort left out
KeepListingOrder(s, key) == s

RECURSIVE SortByKey(_, _)
SortByKey(s, key) ==
    IF s = <<>> THEN <<>>
    ELSE InsertByKey(SortByKey(SubSeq(s, 1, Len(s) - 1), key), s[Len(s)], key)

\* client.utilities.misc.safe_catch_unhandled_exception: what the caller of a
\* decorated function sees when the function body ended with `outcome`
\* ("returned" or "raised"): the exception is logged and not re-raised.
safe_catch_unhandled_exception(outcome) ==
    IF outcome = "raised" THEN "returned" ELSE outcome

\* client.camera_handling.VideoStreamWriterFfmpeg: is_alive(), and whether the
\* external process is running after start_writing() and stop_writing() ended
\* with `outcome`: start_writing launches it, stop_writing returns after its exit
is_alive == recAlive
alive_after_start_writing(outcome) == IF outcome = "returned" THEN TRUE ELSE recAlive
alive_after_stop_writing(outcome) == IF outcome = "returned" THEN FALSE ELSE recAlive

\* ---- initial state: RecordingToolchain.__init__ ----------------------------
\* key storage used when only the pipeline is explored
NoKeys == [d \in 1..MaxDevices |-> <<>>]
NoConf == [info_escrows |-> <<>>,
           data_encryption_strata |-> [pytype |-> "none", keys |-> {}, items |-> <<>>]]

ConfIdle ==
    /\ confStatus = "uncalled"
    /\ confThreshold = 0
    /\ confDevices = <<>>
    /\ container_conf = NoConf

\* os.path.getmtime of a file present at construction: the files are numbered
\* in the order of their (distinct) modification times
getmtime == [f \in Files |-> f]

\* NewVideoHandler.__init__ over a recordings folder holding the files `present`,
\* which os.listdir returns in the order `listing`
NewVideoHandlerInit(present, listing) ==
    /\ preCount = Cardinality(present)
    /\ fileExists = [f \in Files |-> f \in present]
    /\ pending_files = SortByKey(listing, getmtime)
    /\ events = <<>>
    /\ obsState = "new"
    /\ obsStopped = FALSE
    /\ hPc = "idle"
    /\ hEvent = 0
    /\ dispatchedBy = [f \in Files |-> 0]
    /\ popLog = <<>>
    /\ task = [f \in Files |-> "none"]
    /\ taskData = [f \in Files |-> 0]
    /\ poolShutdown = FALSE
    /\ submitCount = [f \in Files |-> 0]
    /\ readCount = [f \in Files |-> 0]
    /\ deleteCount = [f \in Files |-> 0]
    /\ container = [f \in Files |-> 0]
    /\ containerCount = [f \in Files |-> 0]

RtspVideoRecorderInit ==
    /\ recAlive = FALSE
    /\ recStarted = FALSE
    /\ created = 0
    /\ missed = FALSE

ToolchainInit ==
    /\ \E n \in 0..MaxFiles :
         \E listing \in Listings(1..n) :
           NewVideoHandlerInit(1..n, listing)
    /\ RtspVideoRecorderInit
    /\ mainPc = "idle"
    /\ launchCalled = FALSE
    /\ stopResult = "none"
    /\ statusRet = "uncalled"
    /\ statusAlive = FALSE

Init ==
    /\ ToolchainInit
    /\ keyStore = NoKeys
    /\ ConfIdle

\* ---- ThreadPoolExecutor -----------------------------------------------------
Running(f) == task[f] \in {"read", "removed", "encrypted"}
Outstanding(f) == task[f] = "queued" \/ Running(f)
FreeWorker == Cardinality({f \in Files : Running(f)}) < MaxWorkers

\* NewVideoHandler.start_processing(path_file), called by `by`: submit() queues
\* the task, or raises RuntimeError once the pool is shut down, which the
\* decorator of start_processing swallows.
start_processing(path_file, by) ==
    /\ dispatchedBy' = [dispatchedBy EXCEPT ![path_file] = by]
    /\ IF poolShutdown /\ safe_catch_unhandled_exception("raised") = "returned"
       THEN UNCHANGED <<task, submitCount>>
       ELSE /\ task' = [task EXCEPT ![path_file] = "queued"]
            /\ submitCount' = [submitCount EXCEPT ![path_file] = @ + 1]

\* the loop body taking the oldest path, pending_files.pop(0)
process_pending_files_pop_oldest(by) ==
    LET first_file == pending_files[1] IN
    /\ pending_files' = Tail(pending_files)
    /\ popLog' = Append(popLog, first_file)
    /\ start_processing(first_file, by)

\* the loop body reading the last path (pending_files[-1]) without taking it
\* out of the list
process_pending_files_peek(by) ==
    LET last_file == pending_files[Len(pending_files)] IN
    /\ pending_files' = pending_files
    /\ popLog' = Append(popLog, last_file)
    /\ start_processing(last_file, by)

\* one iteration of the loop of process_pending_files: pop() then start_processing
process_pending_files_pop(by) ==
    LET last_file == pending_files[Len(pending_files)] IN
    /\ pending_files' = SubSeq(pending_files, 1, Len(pending_files) - 1)
    /\ popLog' = Append(popLog, last_file)
    /\ start_processing(last_file, by)

\* start_processing when submit() itself raises (the executor cannot start a
\* worker thread): the decorator swallows the exception, the path is dropped
start_processing_submit_raises(path_file, by) ==
    /\ safe_catch_unhandled_exception("raised") = "returned"
    /\ dispatchedBy' = [dispatchedBy EXCEPT ![path_file] = by]
    /\ UNCHANGED <<task, submitCount>>

\* one iteration of the loop of process_pending_files whose submit() raises
process_pending_files_pop_submit_raises(by) ==
    LET last_file == pending_files[Len(pending_files)] IN
    /\ pending_files' = SubSeq(pending_files, 1, Len(pending_files) - 1)
    /\ popLog' = Append(popLog, last_file)
    /\ start_processing_submit_raises(last_file, by)

\* ---- observer thread: NewVideoHandler.on_created ----------------------------
\* on_created with its two statements swapped: the path is appended before the
\* queue is drained
on_created_begin_append_first ==
    /\ obsState = "running" /\ ~obsStopped /\ hPc = "idle"
    /\ events # <<>>
    /\ hEvent' = Head(events)
    /\ events' = Tail(events)
    /\ pending_files' = Append(pending_files, Head(events))
    /\ hPc' = "check"
    /\ UNCHANGED <<obsState, obsStopped, dispatchedBy, popLog>>
    /\ UNCHANGED <<poolVars, fsVars, recVars, mainVars, confVars>>

\* the observer takes the next event of its queue and calls on_created(event)
on_created_begin ==
    /\ obsState = "running" /\ ~obsStopped /\ hPc = "idle"
    /\ events # <<>>
    /\ hEvent' = Head(events)
    /\ events' = Tail(events)
    /\ hPc' = "check"
    /\ UNCHANGED <<pending_files, obsState, obsStopped, dispatchedBy, popLog>>
    /\ UNCHANGED <<poolVars, fsVars, recVars, mainVars, confVars>>

\* on_created without its call of process_pending_files: it goes straight to
\* the append
on_created_check_no_drain ==
    /\ hPc = "check"
    /\ hPc' = "append"
    /\ UNCHANGED <<pending_files, events, obsState, obsStopped, hEvent,
                   dispatchedBy, popLog>>
    /\ UNCHANGED <<poolVars, fsVars, recVars, mainVars, confVars>>

\* `while self.pending_files:` evaluated by on_created
on_created_check ==
    /\ hPc = "check"
    /\ hPc' = IF pending_files = <<>> THEN "append" ELSE "pop"
    /\ UNCHANGED <<pending_files, events, obsState, obsStopped, hEvent, dispatchedBy, popLog>>
    /\ UNCHANGED <<poolVars, fsVars, recVars, mainVars, confVars>>

\* the loop body run by on_created
on_created_pop ==
    /\ hPc = "pop"
    /\ pending_files # <<>>
    /\ process_pending_files_pop(hEvent)
    /\ hPc' = "check"
    /\ UNCHANGED <<events, obsState, obsStopped, hEvent>>
    /\ UNCHANGED <<taskData, poolShutdown>>
    /\ UNCHANGED <<fsVars, recVars, mainVars, confVars>>

\* the loop body of on_created's drain when submit() raises: the loop goes on
on_created_pop_submit_raises ==
    /\ hPc = "pop"
    /\ pending_files # <<>>
    /\ process_pending_files_pop_submit_raises(hEvent)
    /\ hPc' = "check"
    /\ UNCHANGED <<events, obsState, obsStopped, hEvent>>
    /\ UNCHANGED <<taskData, poolShutdown>>
    /\ UNCHANGED <<fsVars, recVars, mainVars, confVars>>

\* pop() from a list the shutdown drain has emptied meanwhile: IndexError leaves
\* on_created, which is not decorated, and ends the observer thread
on_created_pop_raises ==
    /\ hPc = "pop"
    /\ pending_files = <<>>
    /\ hPc' = "idle"
    /\ obsState' = "dead"
    /\ UNCHANGED <<pending_files, events, obsStopped, hEvent, dispatchedBy, popLog>>
    /\ UNCHANGED <<poolVars, fsVars, recVars, mainVars, confVars>>

\* self.pending_files.append(event.src_path)
on_created_append ==
    /\ hPc = "append"
    /\ pending_files' = Append(pending_files, hEvent)
    /\ hPc' = "idle"
    /\ UNCHANGED <<events, obsState, obsStopped, hEvent, dispatchedBy, popLog>>
    /\ UNCHANGED <<poolVars, fsVars, recVars, mainVars, confVars>>

\* the observer thread leaves its loop once stop() was called and no handler runs
observer_exit ==
    /\ obsState = "running" /\ obsStopped /\ hPc = "idle"
    /\ obsState' = "dead"
    /\ UNCHANGED <<pending_files, events, obsStopped, hPc, hEvent, dispatchedBy, popLog>>
    /\ UNCHANGED <<poolVars, fsVars, recVars, mainVars, confVars>>

\* ---- RecordingToolchain.launch_recording_toolchain ---------------------------
\* self.new_video_handler.start_observer() returns: the observer is scheduled
\* on the recordings folder and its thread started
launch_start_observer ==
    /\ mainPc = "idle" /\ ~launchCalled
    /\ launchCalled' = TRUE
    /\ obsState' = "running"
    /\ mainPc' = "launch_recorder"
    /\ UNCHANGED <<pending_files, events, obsStopped, hPc, hEvent, dispatchedBy, popLog>>
    /\ UNCHANGED <<stopResult, statusRet, statusAlive>>
    /\ UNCHANGED <<poolVars, fsVars, recVars, confVars>>

\* start_observer() raises and the toolchain goes on to start the recorder, as
\* if start_observer swallowed its exception like the decorated methods do
launch_start_observer_swallowed ==
    /\ mainPc = "idle" /\ ~launchCalled
    /\ launchCalled' = TRUE
    /\ mainPc' = "launch_recorder"
    /\ UNCHANGED <<stopResult, statusRet, statusAlive>>
    /\ UNCHANGED <<watcherVars, poolVars, fsVars, recVars, confVars>>

\* start_observer() raises (schedule or start fails): it is not decorated, the
\* exception reaches the decorator of launch_recording_toolchain, which returns
launch_start_observer_raises ==
    /\ mainPc = "idle" /\ ~launchCalled
    /\ launchCalled' = TRUE
    /\ mainPc' = "idle"
    /\ UNCHANGED <<stopResult, statusRet, statusAlive>>
    /\ UNCHANGED <<watcherVars, poolVars, fsVars, recVars, confVars>>

\* self.rtsp_video_recorder.start_recording(): start_writing launches the process
launch_start_recording ==
    /\ mainPc = "launch_recorder"
    /\ recAlive' = alive_after_start_writing("returned")
    /\ recStarted' = TRUE
    /\ mainPc' = "idle"
    /\ UNCHANGED <<created, missed>>
    /\ UNCHANGED <<launchCalled, stopResult, statusRet, statusAlive>>
    /\ UNCHANGED <<watcherVars, poolVars, fsVars, confVars>>

\* start_writing raises: swallowed by the decorator of start_recording
launch_start_recording_raises ==
    /\ mainPc = "launch_recorder"
    /\ recAlive' = alive_after_start_writing("raised")
    /\ mainPc' = "idle"
    /\ UNCHANGED <<recStarted, created, missed>>
    /\ UNCHANGED <<launchCalled, stopResult, statusRet, statusAlive>>
    /\ UNCHANGED <<watcherVars, poolVars, fsVars, confVars>>

\* ---- the external recorder process -----------------------------------------
\* the watchdog emitters queue events from observer.start() to observer.stop()
Armed == obsState # "new" /\ ~obsStopped

\* ffmpeg opens its next segment file in the recordings folder
recorder_creates_segment ==
    /\ recAlive
    /\ preCount + created < MaxFiles
    /\ LET f == preCount + created + 1 IN
         /\ fileExists' = [fileExists EXCEPT ![f] = TRUE]
         /\ IF Armed
            THEN events' = Append(events, f) /\ UNCHANGED missed
            ELSE missed' = TRUE /\ UNCHANGED events
    /\ created' = created + 1
    /\ UNCHANGED <<recAlive, recStarted>>
    /\ UNCHANGED <<pending_files, obsState, obsStopped, hPc, hEvent, dispatchedBy, popLog>>
    /\ UNCHANGED <<preCount, readCount, deleteCount, container, containerCount>>
    /\ UNCHANGED <<poolVars, mainVars, confVars>>

\* the process ends by itself (recording_time elapsed, stream lost)
recorder_exits ==
    /\ recAlive
    /\ recAlive' = FALSE
    /\ UNCHANGED <<recStarted, created, missed>>
    /\ UNCHANGED <<watcherVars, poolVars, fsVars, mainVars, confVars>>

\* ---- RecordingToolchain.stop_recording_toolchain_and_wait --------------------
\* where the toolchain continues after rtsp_video_recorder.stop_recording_and_wait()
\* whose body ended with `outcome`
after_stop_recording(outcome) ==
    IF safe_catch_unhandled_exception(outcome) = "returned"
    THEN "stop_observer" ELSE "stopped"

\* stop_writing() signals the process and returns after its exit
stop_recording_and_wait ==
    /\ mainPc = "idle"
    /\ recAlive' = alive_after_stop_writing("returned")
    /\ mainPc' = after_stop_recording("returned")
    /\ UNCHANGED <<recStarted, created, missed>>
    /\ UNCHANGED <<launchCalled, stopResult, statusRet, statusAlive>>
    /\ UNCHANGED <<watcherVars, poolVars, fsVars, confVars>>

\* stop_writing() raises before the process has exited
stop_recording_and_wait_raises ==
    /\ mainPc = "idle"
    /\ recAlive' = alive_after_stop_writing("raised")
    /\ mainPc' = after_stop_recording("raised")
    /\ UNCHANGED <<recStarted, created, missed>>
    /\ UNCHANGED <<launchCalled, stopResult, statusRet, statusAlive>>
    /\ UNCHANGED <<watcherVars, poolVars, fsVars, confVars>>

\* ---- NewVideoHandler.stop_new_files_processing_and_wait ----------------------
\* self.observer.stop()
stop_observer ==
    /\ mainPc = "stop_observer"
    /\ obsStopped' = TRUE
    /\ mainPc' = "drain_check"
    /\ UNCHANGED <<pending_files, events, obsState, hPc, hEvent, dispatchedBy, popLog>>
    /\ UNCHANGED <<launchCalled, stopResult, statusRet, statusAlive>>
    /\ UNCHANGED <<poolVars, fsVars, recVars, confVars>>

\* `while self.pending_files:` evaluated by the shutdown drain
drain_check ==
    /\ mainPc = "drain_check"
    /\ mainPc' = IF pending_files = <<>> THEN "join" ELSE "drain_pop"
    /\ UNCHANGED <<launchCalled, stopResult, statusRet, statusAlive>>
    /\ UNCHANGED <<watcherVars, poolVars, fsVars, recVars, confVars>>

\* the loop body run by the shutdown drain
drain_pop ==
    /\ mainPc = "drain_pop"
    /\ pending_files # <<>>
    /\ process_pending_files_pop(ShutdownDrain)
    /\ mainPc' = "drain_check"
    /\ UNCHANGED <<events, obsState, obsStopped, hPc, hEvent>>
    /\ UNCHANGED <<taskData, poolShutdown>>
    /\ UNCHANGED <<launchCalled, stopResult, statusRet, statusAlive>>
    /\ UNCHANGED <<fsVars, recVars, confVars>>

\* the shutdown drain with the exception of submit() reaching
\* stop_new_files_processing_and_wait, whose decorator returns at once
drain_pop_submit_aborts ==
    /\ mainPc = "drain_pop"
    /\ pending_files # <<>>
    /\ process_pending_files_pop_submit_raises(ShutdownDrain)
    /\ mainPc' = "stopped"
    /\ stopResult' = "RuntimeError"
    /\ UNCHANGED <<events, obsState, obsStopped, hPc, hEvent>>
    /\ UNCHANGED <<taskData, poolShutdown>>
    /\ UNCHANGED <<launchCalled, statusRet, statusAlive>>
    /\ UNCHANGED <<fsVars, recVars, confVars>>

\* the loop body run by the shutdown drain when submit() raises: the exception
\* ends in start_processing and the loop goes on
drain_pop_submit_raises ==
    /\ mainPc = "drain_pop"
    /\ pending_files # <<>>
    /\ process_pending_files_pop_submit_raises(ShutdownDrain)
    /\ mainPc' = "drain_check"
    /\ UNCHANGED <<events, obsState, obsStopped, hPc, hEvent>>
    /\ UNCHANGED <<taskData, poolShutdown>>
    /\ UNCHANGED <<launchCalled, stopResult, statusRet, statusAlive>>
    /\ UNCHANGED <<fsVars, recVars, confVars>>

\* pop() from a list on_created has emptied meanwhile: IndexError, swallowed by
\* the decorator of stop_new_files_processing_and_wait, which returns at once
drain_pop_raises ==
    /\ mainPc = "drain_pop"
    /\ pending_files = <<>>
    /\ mainPc' = "stopped"
    /\ stopResult' = "IndexError"
    /\ UNCHANGED <<launchCalled, statusRet, statusAlive>>
    /\ UNCHANGED <<watcherVars, poolVars, fsVars, recVars, confVars>>

\* a join() that returns without waiting for the observer thread to end
observer_join_no_wait ==
    /\ mainPc = "join"
    /\ obsState # "new"
    /\ mainPc' = "shutdown"
    /\ UNCHANGED <<launchCalled, stopResult, statusRet, statusAlive>>
    /\ UNCHANGED <<watcherVars, poolVars, fsVars, recVars, confVars>>

\* self.observer.join() returns once the observer thread has ended
observer_join ==
    /\ mainPc = "join"
    /\ obsState = "dead"
    /\ mainPc' = "shutdown"
    /\ UNCHANGED <<launchCalled, stopResult, statusRet, statusAlive>>
    /\ UNCHANGED <<watcherVars, poolVars, fsVars, recVars, confVars>>

\* join() of a thread that was never started raises RuntimeError, swallowed by
\* the decorator: the executor is not shut down
observer_join_raises ==
    /\ mainPc = "join"
    /\ obsState = "new"
    /\ mainPc' = "stopped"
    /\ stopResult' = "RuntimeError"
    /\ UNCHANGED <<launchCalled, statusRet, statusAlive>>
    /\ UNCHANGED <<watcherVars, poolVars, fsVars, recVars, confVars>>

\* self.THREAD_POOL_EXECUTOR.shutdown(): no new task is accepted from here on
executor_shutdown ==
    /\ mainPc = "shutdown"
    /\ poolShutdown' = TRUE
    /\ mainPc' = "shutdown_wait"
    /\ UNCHANGED <<task, taskData, submitCount>>
    /\ UNCHANGED <<launchCalled, stopResult, statusRet, statusAlive>>
    /\ UNCHANGED <<watcherVars, fsVars, recVars, confVars>>

\* shutdown(wait=True) returns when every queued and running task has ended
executor_shutdown_returns ==
    /\ mainPc = "shutdown_wait"
    /\ \A f \in Files : ~Outstanding(f)
    /\ mainPc' = "stopped"
    /\ stopResult' = "completed"
    /\ UNCHANGED <<launchCalled, statusRet, statusAlive>>
    /\ UNCHANGED <<watcherVars, poolVars, fsVars, recVars, confVars>>

\* ---- status ------------------------------------------------------------------
\* RtspVideoRecorder.get_ffmpeg_status
get_ffmpeg_status == is_alive

\* RecordingToolchain.get_status: the probe is evaluated and dropped, the
\* function body has no return statement
get_status ==
    /\ mainPc \in {"idle", "stopped"}
    /\ statusAlive' = get_ffmpeg_status
    /\ statusRet' = "None"
    /\ UNCHANGED <<mainPc, launchCalled, stopResult>>
    /\ UNCHANGED <<watcherVars, poolVars, fsVars, recVars, confVars>>

\* ---- worker tasks: NewVideoHandler._offloaded_start_processing ---------------
\* the bytes of a staging file; every segment has its own payload
Content(f) == f

\* the read followed at once by save_container, before the file is removed
task_read_and_persist(f) ==
    /\ task[f] = "queued" /\ FreeWorker
    /\ fileExists[f]
    /\ taskData' = [taskData EXCEPT ![f] = Content(f)]
    /\ readCount' = [readCount EXCEPT ![f] = @ + 1]
    /\ container' = [container EXCEPT ![f] = Content(f)]
    /\ containerCount' = [containerCount EXCEPT ![f] = @ + 1]
    /\ task' = [task EXCEPT ![f] = "read"]
    /\ UNCHANGED <<poolShutdown, submitCount>>
    /\ UNCHANGED <<fileExists, preCount, deleteCount>>
    /\ UNCHANGED <<watcherVars, recVars, mainVars, confVars>>

\* the read with the bytes kept in one buffer shared by all the tasks of the
\* handler instead of a local variable of the task
task_read_shared_buffer(f) ==
    /\ task[f] = "queued" /\ FreeWorker
    /\ fileExists[f]
    /\ task' = [task EXCEPT ![f] = "read"]
    /\ taskData' = [g \in Files |-> Content(f)]
    /\ readCount' = [readCount EXCEPT ![f] = @ + 1]
    /\ UNCHANGED <<poolShutdown, submitCount>>
    /\ UNCHANGED <<fileExists, preCount, deleteCount, container, containerCount>>
    /\ UNCHANGED <<watcherVars, recVars, mainVars, confVars>>

\* a worker takes the task; get_data_then_delete_videofile: open() and file.read()
task_read(f) ==
    /\ task[f] = "queued" /\ FreeWorker
    /\ fileExists[f]
    /\ taskData' = [taskData EXCEPT ![f] = Content(f)]
    /\ readCount' = [readCount EXCEPT ![f] = @ + 1]
    /\ task' = [task EXCEPT ![f] = "read"]
    /\ UNCHANGED <<poolShutdown, submitCount>>
    /\ UNCHANGED <<fileExists, preCount, deleteCount, container, containerCount>>
    /\ UNCHANGED <<watcherVars, recVars, mainVars, confVars>>

\* get_data_then_delete_videofile returning the bytes without os.remove(path)
task_remove_keeps_file(f) ==
    /\ task[f] = "read"
    /\ fileExists[f]
    /\ task' = [task EXCEPT ![f] = "removed"]
    /\ UNCHANGED <<taskData, poolShutdown, submitCount>>
    /\ UNCHANGED fsVars
    /\ UNCHANGED <<watcherVars, recVars, mainVars, confVars>>

\* get_data_then_delete_videofile: os.remove(path)
task_remove(f) ==
    /\ task[f] = "read"
    /\ fileExists[f]
    /\ fileExists' = [fileExists EXCEPT ![f] = FALSE]
    /\ deleteCount' = [deleteCount EXCEPT ![f] = @ + 1]
    /\ task' = [task EXCEPT ![f] = "removed"]
    /\ UNCHANGED <<taskData, poolShutdown, submitCount>>
    /\ UNCHANGED <<preCount, readCount, container, containerCount>>
    /\ UNCHANGED <<watcherVars, recVars, mainVars, confVars>>

\* encrypt_data_into_container(conf, data, metadata, key_storage_pool)
task_encrypt(f) ==
    /\ task[f] = "removed"
    /\ task' = [task EXCEPT ![f] = "encrypted"]
    /\ UNCHANGED <<taskData, poolShutdown, submitCount>>
    /\ UNCHANGED <<watcherVars, fsVars, recVars, mainVars, confVars>>

\* save_container(video_filepath=path_file, container): the .crypt file is named
\* after the base name of the path
task_save(f) ==
    /\ task[f] = "encrypted"
    /\ container' = [container EXCEPT ![f] = taskData[f]]
    /\ containerCount' = [containerCount EXCEPT ![f] = @ + 1]
    /\ task' = [task EXCEPT ![f] = "done"]
    /\ UNCHANGED <<taskData, poolShutdown, submitCount>>
    /\ UNCHANGED <<fileExists, preCount, readCount, deleteCount>>
    /\ UNCHANGED <<watcherVars, recVars, mainVars, confVars>>

\* a raising step that leaves the executor broken: it accepts no task any more
\* and drops the tasks still queued
task_raises_breaks_pool(f) ==
    /\ \/ task[f] = "queued" /\ FreeWorker
       \/ Running(f)
    /\ task' = [g \in Files |->
                  IF g = f \/ task[g] = "queued" THEN "failed" ELSE task[g]]
    /\ poolShutdown' = TRUE
    /\ UNCHANGED <<taskData, submitCount>>
    /\ UNCHANGED <<watcherVars, fsVars, recVars, mainVars, confVars>>

\* the next step of the task (read, delete, encrypt or persist) raises: the
\* decorator of _offloaded_start_processing logs it and the task ends
task_raises(f) ==
    /\ \/ task[f] = "queued" /\ FreeWorker
       \/ Running(f)
    /\ safe_catch_unhandled_exception("raised") = "returned"
    /\ task' = [task EXCEPT ![f] = "failed"]
    /\ UNCHANGED <<taskData, poolShutdown, submitCount>>
    /\ UNCHANGED <<watcherVars, fsVars, recVars, mainVars, confVars>>

\* ---- specification of the pipeline ---------------------------------------------
Next ==
    \/ launch_start_observer
    \/ launch_start_observer_raises
    \/ launch_start_recording
    \/ launch_start_recording_raises
    \/ recorder_creates_segment
    \/ recorder_exits
    \/ on_created_begin
    \/ on_created_check
    \/ on_created_pop
    \/ on_created_pop_submit_raises
    \/ on_created_pop_raises
    \/ on_created_append
    \/ observer_exit
    \/ stop_recording_and_wait
    \/ stop_recording_and_wait_raises
    \/ stop_observer
    \/ drain_check
    \/ drain_pop
    \/ drain_pop_submit_raises
    \/ drain_pop_raises
    \/ observer_join
    \/ observer_join_raises
    \/ executor_shutdown
    \/ executor_shutdown_returns
    \/ \E f \in Files : task_read(f)
    \/ \E f \in Files : task_remove(f)
    \/ \E f \in Files : task_encrypt(f)
    \/ \E f \in Files : task_save(f)
    \/ \E f \in Files : task_raises(f)

Spec == Init /\ [][Next]_vars

\* the statements of stop_new_files_processing_and_wait, run by the caller's
\* thread once the method is entered
StopSteps ==
    \/ stop_observer
    \/ drain_check
    \/ drain_pop
    \/ drain_pop_submit_raises
    \/ drain_pop_raises
    \/ observer_join
    \/ observer_join_raises
    \/ executor_shutdown
    \/ executor_shutdown_returns

\* the statements of an on_created call in progress and the end of the
\* observer thread
ObserverSteps ==
    \/ on_created_check
    \/ on_created_pop
    \/ on_created_pop_submit_raises
    \/ on_created_pop_raises
    \/ on_created_append
    \/ observer_exit

\* the steps of the worker threads of the pool, raising ones included
WorkerSteps ==
    \E f \in Files :
        task_read(f) \/ task_remove(f) \/ task_encrypt(f) \/ task_save(f)
            \/ task_raises(f)

\* the pipeline with threads that are scheduled: a thread that can take a step
\* eventually takes one, so every worker task terminates
FairSpec ==
    /\ Init /\ [][Next]_vars
    /\ WF_vars(StopSteps)
    /\ WF_vars(ObserverSteps)
    /\ WF_vars(WorkerSteps)

\* the pipeline with a caller that also polls get_status between its calls
StatusNext == Next \/ get_status

StatusSpec == Init /\ [][StatusNext]_vars

\* ---- _generate_encryption_conf -------------------------------------------------
Devices == 1..MaxDevices

\* key_storage.list_keys() of a device holding n keys
KeyList(d, n) ==
    [k \in 1..n |-> [key_type |-> "RSA_OAEP", keychain_uid |-> (d - 1) * MaxKeys + k]]

KeyStores == {[d \in Devices |-> KeyList(d, n[d])] : n \in [Devices -> 0..MaxKeys]}

\* sequences of at most MaxDevices elements of S
SeqsUpTo(S) == UNION {[1..n -> S] : n \in 0..MaxDevices}

\* the dict appended to info_escrows for the key drawn for one device
info_escrow(key) ==
    [share_encryption_algo |-> key.key_type,
     keychain_uid |-> key.keychain_uid,
     share_escrow |-> "LOCAL_ESCROW_MARKER"]

\* a Python dict value of the configuration with one key, tagged with its type
\* (a list would be tagged "list")
PyDict(key, value) == [pytype |-> "dict", keys |-> {key}, items |-> value]

\* the value built by _generate_encryption_conf(threshold, key_devices_used)
\* when random.choice draws key number picks[i] for the i-th device
generate_encryption_conf(threshold, key_devices_used, picks) ==
    LET info_escrows ==
            [i \in 1..Len(key_devices_used) |->
                info_escrow(keyStore[key_devices_used[i]][picks[i]])]
        shared_secret_encryption ==
            <<[key_encryption_algo |-> "SHARED_SECRET_MARKER",
               key_shared_secret_threshold |-> threshold,
               key_shared_secret_escrows |-> info_escrows]>>
        data_signatures ==
            <<[message_prehash_algo |-> "SHA256",
               signature_algo |-> "DSA_DSS",
               signature_escrow |-> "LOCAL_ESCROW_MARKER"]>>
        data_encryption_strata ==
            <<[data_encryption_algo |-> "AES_CBC",
               key_encryption_strata |-> shared_secret_encryption,
               data_signatures |-> data_signatures]>>
    IN  [info_escrows |-> info_escrows,
         data_encryption_strata |->
             PyDict("data_encryption_strata", data_encryption_strata)]

\* the call returns: every device of the list holds at least one key
generate_encryption_conf_returns ==
    /\ confStatus = "uncalled"
    /\ \E threshold \in 0..(MaxDevices + 1) :
         \E key_devices_used \in SeqsUpTo(Devices) :
           /\ \A i \in DOMAIN key_devices_used : keyStore[key_devices_used[i]] # <<>>
           /\ \E picks \in [DOMAIN key_devices_used -> 1..MaxKeys] :
                /\ \A i \in DOMAIN picks :
                     picks[i] <= Len(keyStore[key_devices_used[i]])
                /\ confThreshold' = threshold
                /\ confDevices' = key_devices_used
                /\ container_conf' =
                     generate_encryption_conf(threshold, key_devices_used, picks)
    /\ confStatus' = "returned"
    /\ UNCHANGED keyStore
    /\ UNCHANGED <<watcherVars, poolVars, fsVars, recVars, mainVars>>

\* random.choice of an empty key list raises IndexError out of the function
generate_encryption_conf_raises ==
    /\ confStatus = "uncalled"
    /\ \E threshold \in 0..(MaxDevices + 1) :
         \E key_devices_used \in SeqsUpTo(Devices) :
           /\ \E i \in DOMAIN key_devices_used : keyStore[key_devices_used[i]] = <<>>
           /\ confThreshold' = threshold
           /\ confDevices' = key_devices_used
    /\ confStatus' = "IndexError"
    /\ UNCHANGED <<keyStore, container_conf>>
    /\ UNCHANGED <<watcherVars, poolVars, fsVars, recVars, mainVars>>

ConfInit ==
    /\ NewVideoHandlerInit({}, <<>>)
    /\ RtspVideoRecorderInit
    /\ mainPc = "idle"
    /\ launchCalled = FALSE
    /\ stopResult = "none"
    /\ statusRet = "uncalled"
    /\ statusAlive = FALSE
    /\ keyStore \in KeyStores
    /\ ConfIdle

ConfNext ==
    \/ generate_encryption_conf_returns
    \/ generate_encryption_conf_raises

ConfSpec == ConfInit /\ [][ConfNext]_vars

\* ---- properties -----------------------------------------------------------------
\* the segments the recorder has created so far
CreatedFiles == (preCount + 1)..(preCount + created)
\* stop_new_files_processing_and_wait has returned
WatcherStopReturned == mainPc = "stopped" /\ stopResult # "none"
\* stop_new_files_processing_and_wait has been entered
WatcherStopBegun ==
    \/ mainPc \in {"stop_observer", "drain_check", "drain_pop", "join",
                   "shutdown", "shutdown_wait"}
    \/ stopResult # "none"

\* C1: after a clean shutdown (the toolchain was launched, every segment was
\* created while the observer was armed, the recorder has exited,
\* stop_new_files_processing_and_wait ran to its end, no submission and no task
\* failed), every
\* segment created has been read once, deleted once and has exactly one
\* container, so N segments give N containers.
ExactlyOnceConsumption ==
    (/\ mainPc = "stopped" /\ stopResult = "completed"
     /\ recStarted /\ ~recAlive /\ ~missed
     /\ \A f \in Files : task[f] # "failed"
     /\ \A f \in Files : dispatchedBy[f] # 0 => submitCount[f] = 1)
    => /\ \A f \in CreatedFiles :
            readCount[f] = 1 /\ deleteCount[f] = 1 /\ containerCount[f] = 1
       /\ Cardinality({f \in CreatedFiles : container[f] # 0}) = created

\* C2: a created segment is submitted to the pool only by the on_created call of
\* the next segment or by the shutdown drain, never by the on_created call that
\* enqueues it; and when a segment is in the queue, every segment created
\* before it has already been taken out of the queue and dispatched.
DeferredDispatch ==
    \A f \in Files :
        /\ dispatchedBy[f] # f
        /\ (f > preCount /\ dispatchedBy[f] # 0)
              => dispatchedBy[f] \in {f + 1, ShutdownDrain}
        /\ (f > preCount /\ f \in Range(pending_files))
              => \A g \in (preCount + 1)..(f - 1) :
                    dispatchedBy[g] # 0 /\ g \notin Range(pending_files)

\* C2 witness: from an empty queue, f1 dispatched by on_created(f2), f2 by
\* on_created(f3), the last segment by the shutdown drain
DeferredDispatchWitness ==
    /\ preCount = 0 /\ MaxFiles >= 3
    /\ \A f \in 1..(MaxFiles - 1) : dispatchedBy[f] = f + 1 /\ submitCount[f] = 1
    /\ dispatchedBy[MaxFiles] = ShutdownDrain /\ submitCount[MaxFiles] = 1

\* C3: stop_new_files_processing_and_wait has not returned while a submitted
\* task is still queued or running.
DrainWaitsForPool ==
    WatcherStopReturned => \A f \in Files : ~Outstanding(f)

StartOrdering ==
    /\ (recStarted \/ recAlive \/ created > 0) => obsState # "new"
    /\ mainPc = "launch_recorder" => obsState = "running"

\* C5 witness: the toolchain was launched and the recorder has written a segment
\* whose creation the armed observer has queued or delivered
StartOrderingWitness ==
    /\ recStarted /\ created > 0 /\ ~missed
    /\ mainPc = "idle"

\* C6: while and after stop_new_files_processing_and_wait runs the recorder
\* process is not alive, and no segment was created unobserved.
StopOrdering ==
    /\ WatcherStopBegun => ~recAlive
    /\ ~missed

\* the successful steps of the worker tasks
TaskProgress ==
    \E f \in Files : task_read(f) \/ task_remove(f) \/ task_encrypt(f) \/ task_save(f)

\* C7: a step of a task that raises changes the state of that task alone: the
\* other tasks, the executor, the observer thread, its event queue, the pending
\* queue and the containers are left as they were; whenever a task is queued or
\* running the pool can run a step of a task; a task that ended without raising
\* has written the container of its own segment.
FailureIsolation ==
    /\ [][\A f \in Files :
            (task[f] # "failed" /\ task'[f] = "failed")
               => /\ \A g \in Files \ {f} : task'[g] = task[g]
                  /\ UNCHANGED <<poolShutdown, submitCount, taskData>>
                  /\ UNCHANGED <<watcherVars, fsVars, recVars>>]_vars
    /\ [](\A g \in Files :
            /\ Outstanding(g) => ENABLED TaskProgress
            /\ task[g] = "done" => container[g] = Content(g))

\* C7 witness: one task has failed after deleting its file, another segment
\* dispatched before it and one dispatched after it have their containers
FailureIsolationWitness ==
    \E f, g, h \in Files :
        /\ g < f /\ f < h
        /\ task[f] = "failed" /\ ~fileExists[f] /\ deleteCount[f] = 1
        /\ task[g] = "done" /\ container[g] = Content(g)
        /\ task[h] = "done" /\ container[h] = Content(h)
        /\ obsState = "running"

\* C8: the value get_status returned is the liveness of the recorder process at
\* the time of the call.
GetStatusIsLiveness ==
    statusRet # "uncalled"
        => statusRet = (IF statusAlive THEN "True" ELSE "False")

\* C9: _generate_encryption_conf returns a configuration only for a threshold
\* between 1 and the number of key devices.
ThresholdValidated ==
    confStatus = "returned"
        => (1 <= confThreshold /\ confThreshold <= Len(confDevices))

\* C10: for a valid threshold the returned configuration has one escrow per
\* device, in device order, with a key of that device; its data encryption
\* strata is a list of one stratum, whose single shared-secret stratum has the
\* given threshold and the same escrows.
PolicyConstruction ==
    (/\ confStatus = "returned"
     /\ 1 <= confThreshold /\ confThreshold <= Len(confDevices))
    => LET strata == container_conf.data_encryption_strata IN
       /\ Len(container_conf.info_escrows) = Len(confDevices)
       /\ \A i \in DOMAIN confDevices :
            \E k \in DOMAIN keyStore[confDevices[i]] :
               container_conf.info_escrows[i] = info_escrow(keyStore[confDevices[i]][k])
       /\ strata.pytype = "list"
       /\ Len(strata.items) = 1
       /\ Len(strata.items[1].key_encryption_strata) = 1
       /\ strata.items[1].key_encryption_strata[1].key_shared_secret_threshold
             = confThreshold
       /\ strata.items[1].key_encryption_strata[1].key_shared_secret_escrows
             = container_conf.info_escrows


\* the state right after RecordingToolchain.__init__: no method was called yet
AtConstruction == mainPc = "idle" /\ ~launchCalled

\* C11: right after construction pending_files holds exactly the files present
\* in the recordings folder, each once, in ascending order of modification
\* time, and none of them has been dispatched.
InitialOrdering ==
    AtConstruction
        => /\ Range(pending_files) = {f \in Files : fileExists[f]}
           /\ Len(pending_files) = preCount
           /\ \A i, j \in DOMAIN pending_files :
                i < j => getmtime[pending_files[i]] < getmtime[pending_files[j]]
           /\ \A f \in Files :
                dispatchedBy[f] = 0 /\ submitCount[f] = 0 /\ task[f] = "none"
           /\ popLog = <<>>

\* C11 witness: a folder holding several files at construction
InitialOrderingWitness ==
    /\ AtConstruction
    /\ preCount >= 2
    /\ Len(pending_files) = preCount


\* C12: whatever the interleaving of the tasks, the bytes a task holds and the
\* container persisted for a segment come from that segment's staging file only.
IsolationUnderConcurrency ==
    \A f \in Files :
        /\ task[f] \in {"read", "removed", "encrypted", "done"}
              => taskData[f] = Content(f)
        /\ container[f] # 0 => container[f] = Content(f)
        /\ containerCount[f] > 0 => container[f] = Content(f)

\* C12 witness: a container was persisted for one segment while the tasks of
\* two other segments were running side by side, each holding its own bytes
IsolationUnderConcurrencyWitness ==
    \E a, b, c \in Files :
        /\ a # b /\ a # c /\ b # c
        /\ task[a] = "encrypted" /\ task[b] = "read"
        /\ taskData[a] = Content(a) /\ taskData[b] = Content(b)
        /\ container[c] = Content(c)


\* the shutdown drain (process_pending_files called by
\* stop_new_files_processing_and_wait) is reading or popping the queue
ShutdownDrainRunning == mainPc \in {"drain_check", "drain_pop"}
\* an on_created call has begun and not yet returned
HandlerRunning == hPc # "idle"

PopCount(f) == Cardinality({i \in DOMAIN popLog : popLog[i] = f})

\* C14: under every interleaving of on_created calls and the shutdown drain, a
\* path is taken out of the queue and submitted to the pool at most once, and
\* no staging file is read by more than one task.
AtMostOnceDispatch ==
    \A f \in Files :
        /\ PopCount(f) <= 1
        /\ submitCount[f] <= 1
        /\ readCount[f] <= 1
        /\ f \in Range(pending_files) => (PopCount(f) = 0 /\ submitCount[f] = 0)

\* C14 witness: an on_created call and the shutdown drain both dispatched
\* paths, and the shutdown drain ran while an on_created call was in progress
AtMostOnceDispatchWitness ==
    /\ ShutdownDrainRunning /\ HandlerRunning
    /\ \E f, g \in Files :
          /\ dispatchedBy[f] = ShutdownDrain /\ submitCount[f] = 1
          /\ dispatchedBy[g] \in Files /\ submitCount[g] = 1 /\ readCount[g] = 1


\* a step of the shutdown drain that leaves a non-empty queue behind stays in
\* the loop of process_pending_files
DrainGoesOn ==
    (/\ ShutdownDrainRunning
     /\ mainPc' # mainPc
     /\ pending_files' # <<>>)
    => mainPc' \in {"drain_check", "drain_pop"}

\* C15: once stop_new_files_processing_and_wait is entered it eventually
\* returns, provided the threads are scheduled and every worker task
\* terminates; and a submission or a task that fails does not take the shutdown
\* drain out of its loop while paths are left in the queue.
ShutdownCompletes ==
    /\ [][DrainGoesOn]_vars
    /\ (mainPc = "stop_observer") ~> WatcherStopReturned

\* C15 witness: the shutdown drain popped three paths; the submission of the
\* first failed, the task of the second failed, the third was processed, and
\* stop_new_files_processing_and_wait ran to its end
ShutdownCompletesWitness ==
    /\ mainPc = "stopped" /\ stopResult = "completed"
    /\ \E a, b, c \in Files :
          /\ a > b /\ b > c
          /\ dispatchedBy[a] = ShutdownDrain /\ submitCount[a] = 0
          /\ dispatchedBy[b] = ShutdownDrain /\ task[b] = "failed"
          /\ dispatchedBy[c] = ShutdownDrain /\ task[c] = "done"


\* C16: the queue is in order of age (oldest first) and the drains take paths
\* from its tail: the files the queue held together since construction are
\* popped, hence submitted, newest first and oldest last, and a path still
\* queued is older than every such path already popped.
DispatchOrder ==
    /\ \A i, j \in DOMAIN pending_files :
          i < j => pending_files[i] < pending_files[j]
    /\ \A i, j \in DOMAIN popLog :
          (i < j /\ popLog[i] <= preCount /\ popLog[j] <= preCount)
             => getmtime[popLog[i]] > getmtime[popLog[j]]
    /\ \A i \in DOMAIN popLog : \A f \in Range(pending_files) :
          (popLog[i] <= preCount /\ f <= preCount)
             => getmtime[f] < getmtime[popLog[i]]

\* C16 witness: one drain (the shutdown drain) found three paths in the queue
\* and submitted them newest first
DispatchOrderWitness ==
    /\ preCount = 3
    /\ popLog = <<3, 2, 1>>
    /\ \A f \in Files : dispatchedBy[f] = ShutdownDrain /\ submitCount[f] = 1


\* the files that are or were in the recordings folder
StagedFiles == 1..(preCount + created)
\* the task of f has got through get_data_then_delete_videofile, or has ended
Consumed(f) == task[f] \in {"removed", "encrypted", "done", "failed"}

\* C17: in every state a staging file exists if and only if no task has
\* consumed it: every task that has read its file or has ended, failed ones
\* included, has left no staging file behind.
StagingPresence ==
    \A f \in StagedFiles : fileExists[f] <=> ~Consumed(f)

\* C17, amended: a staging file is gone if and only if a task has read it and
\* then removed it; a task that has got through get_data_then_delete_videofile
\* has left no file, a task that has not yet got through it has its file, and
\* only a task that failed may have ended with its file still there.
StagingPresenceUnlessFailed ==
    \A f \in StagedFiles :
        /\ ~fileExists[f] <=> deleteCount[f] = 1
        /\ deleteCount[f] <= readCount[f]
        /\ task[f] \in {"removed", "encrypted", "done"} => ~fileExists[f]
        /\ task[f] \in {"none", "queued", "read"} => fileExists[f]

\* C17 witness: one task ended normally and left no staging file, another
\* failed after reading its file and left it in the folder
StagingPresenceUnlessFailedWitness ==
    \E f, g \in StagedFiles :
        /\ task[f] = "done" /\ ~fileExists[f] /\ deleteCount[f] = 1
        /\ task[g] = "failed" /\ fileExists[g] /\ readCount[g] = 1


\* an on_created call has returned normally, and the shutdown drain has not
\* begun: the caller is before the observer.stop() of
\* stop_new_files_processing_and_wait
HandledOutsideShutdown ==
    /\ hEvent # 0 /\ hPc = "idle"
    /\ mainPc \in {"idle", "launch_recorder", "stop_observer"}
    /\ stopResult = "none"

\* C18: when an on_created call that no shutdown drain interleaves with has
\* returned, the queue holds exactly one element, the path of the event just
\* handled; and while such a call is at its append, the queue is empty.
SinglePending ==
    /\ HandledOutsideShutdown => pending_files = <<hEvent>>
    /\ (hPc = "append" /\ mainPc \in {"idle", "launch_recorder", "stop_observer"})
          => pending_files = <<>>

\* C18 witness: the handler of the second segment has returned; it found the
\* first segment in the queue, dispatched it and left its own path alone
SinglePendingWitness ==
    /\ HandledOutsideShutdown
    /\ hEvent > preCount + 1
    /\ dispatchedBy[hEvent - 1] = hEvent
    /\ pending_files = <<hEvent>>


\* a container file was written for f
HasContainer(f) == containerCount[f] > 0 \/ container[f] # 0

\* C19: a task reads, deletes, encrypts and persists in that order: a container
\* exists for a segment only if its staging file was read and is already
\* deleted, and only the task that ended normally has written one; a task that
\* failed after the delete has left neither a staging file nor a container.
DeleteBeforePersist ==
    \A f \in Files :
        /\ HasContainer(f)
              => (~fileExists[f] /\ deleteCount[f] = 1 /\ readCount[f] = 1)
        /\ HasContainer(f) <=> task[f] = "done"
        /\ (task[f] = "failed" /\ deleteCount[f] = 1)
              => (~fileExists[f] /\ ~HasContainer(f))

\* C19 witness: one task failed at its encrypt or persist step, after the
\* delete, and another went through and wrote its container
DeleteBeforePersistWitness ==
    \E f, g \in Files :
        /\ task[f] = "failed" /\ deleteCount[f] = 1
        /\ ~fileExists[f] /\ ~HasContainer(f)
        /\ task[g] = "done" /\ HasContainer(g) /\ ~fileExists[g]


\* a step that hands a path to start_processing
Dispatches == popLog' # popLog \/ dispatchedBy' # dispatchedBy \/ submitCount' # submitCount

\* C20: once THREAD_POOL_EXECUTOR.shutdown() has been called no path is handed
\* to the pool any more: the observer thread has ended with no on_created call
\* in progress, the shutdown drain is over, and no later step dispatches.
NoSubmitAfterShutdown ==
    /\ [](poolShutdown => (/\ obsState = "dead" /\ ~HandlerRunning
                           /\ ~ShutdownDrainRunning))
    /\ [][poolShutdown => ~Dispatches]_vars

\* C20 witness: the pool is shut down after an on_created call that was still
\* running while the shutdown drain popped paths made its own submission
NoSubmitAfterShutdownWitness ==
    /\ poolShutdown
    /\ \E i, j \in DOMAIN popLog :
          /\ i < j
          /\ dispatchedBy[popLog[i]] = ShutdownDrain
          /\ dispatchedBy[popLog[j]] \in Files
          /\ submitCount[popLog[j]] = 1

====
